---- MODULE Spec2Model ----
(***************************************************************************)
(* forwardhook: the webhook handler of src/main.rs.  A request (route id,  *)
(* JSON object body) is looked up in the configuration, the configured     *)
(* field mappings copy values of the body into a new JSON object, and the  *)
(* object is sent upstream (or echoed back when debug is set).             *)
(***************************************************************************)
EXTENDS Integers, Sequences, FiniteSets, TLC

(***************************************************************************)
(* serde_json::Value.  Every value is a record of the same four fields so  *)
(* that any two values can be compared: t is the variant, n the number, a  *)
(* the elements of an Array, o the entries of an Object (a function from   *)
(* its keys).  JsonObject (serde_json::Map) is the o part alone.           *)
(***************************************************************************)
EmptyObject == [k \in {} |-> 0]

Null == [t |-> "Null", n |-> 0, a |-> <<>>, o |-> EmptyObject]

Num(x) == [t |-> "Number", n |-> x, a |-> <<>>, o |-> EmptyObject]

Arr(s) == [t |-> "Array", n |-> 0, a |-> s, o |-> EmptyObject]

Obj(m) == [t |-> "Object", n |-> 0, a |-> <<>>, o |-> m]

\* JsonPathSegment: Key(String) | Index(usize)
Key(s) == [k |-> "Key", s |-> s, i |-> 0]

Index(i) == [k |-> "Index", s |-> "", i |-> i]

\* struct Field
Field(from, to, optional) == [from |-> from, to |-> to, optional |-> optional]

(***************************************************************************)
(* OrInsertJsonValue and the two get_or_insert_mut.                        *)
(***************************************************************************)
\* OrInsertJsonValue::concrete
concrete(insert) ==
    CASE insert = "Object" -> Obj(EmptyObject)
      [] insert = "Array"  -> Arr(<<>>)
      [] OTHER             -> Null

\* a peek that looks at the current segment instead of the next one
match_peek_current(path, j) ==
    IF path[j].k = "Key" THEN "Object" ELSE "Array"

\* match_peek!: the kind of value to insert, from the segment after position j
match_peek(path, j) ==
    IF j + 1 <= Len(path)
    THEN (IF path[j + 1].k = "Key" THEN "Object" ELSE "Array")
    ELSE "Null"

\* a get_or_insert_mut that inserts even when the key is there
ObjectAlwaysInsert(obj, key, insert) ==
    [x \in DOMAIN obj \cup {key} |-> IF x = key THEN concrete(insert) ELSE obj[x]]

\* JsonObject::get_or_insert_mut: the map after the call (the returned
\* reference is the entry at key, which always exists afterwards)
ObjectGetOrInsert(obj, key, insert) ==
    IF key \notin DOMAIN obj
    THEN [x \in DOMAIN obj \cup {key} |-> IF x = key THEN concrete(insert) ELSE obj[x]]
    ELSE obj

\* the Null placeholders pushed by the loop `for _ in self.len()..index`
NullPadding(n) == [x \in 1..n |-> Null]

\* a get_or_insert_mut that builds the vector anew when it extends it
ArrayRebuild(ary, index, insert) ==
    IF Len(ary) < index
    THEN NullPadding(index) \o <<concrete(insert)>>
    ELSE ary

\* a get_or_insert_mut that turns a Null element into the value to insert
ArrayRetypeNull(ary, index, insert) ==
    IF Len(ary) < index
    THEN ary \o NullPadding(index - Len(ary)) \o <<concrete(insert)>>
    ELSE IF index < Len(ary) /\ ary[index + 1] = Null
    THEN [ary EXCEPT ![index + 1] = concrete(insert)]
    ELSE ary

\* JsonArray::get_or_insert_mut: the vector after the pushes; the call then
\* does self.get_mut(index).unwrap(), which panics when index is not a
\* position of that vector (ArrayHasIndex)
ArrayGetOrInsert(ary, index, insert) ==
    IF Len(ary) < index
    THEN ary \o NullPadding(index - Len(ary)) \o <<concrete(insert)>>
    ELSE ary

\* Vec::get_mut(index) is Some: positions are 0-based
ArrayHasIndex(ary, index) == index < Len(ary)

(***************************************************************************)
(* fn from: the read of field.from in the body.  The result is             *)
(* [ok, val, err]; err names the message logged with the rejection.        *)
(***************************************************************************)
ReadOk(v) == [ok |-> TRUE, val |-> v, err |-> "none"]

ReadErr(e) == [ok |-> FALSE, val |-> Null, err |-> e]

\* a loop that takes element index-1 and so accepts index = len
RECURSIVE FromLoopOffByOne(_, _, _)
FromLoopOffByOne(cur, path, j) ==
    IF j > Len(path) THEN ReadOk(cur)
    ELSE IF path[j].k = "Key"
         THEN IF cur.t # "Object" THEN ReadErr("ExpectedObject")
              ELSE IF path[j].s \notin DOMAIN cur.o THEN ReadErr("MissingKey")
              ELSE FromLoopOffByOne(cur.o[path[j].s], path, j + 1)
         ELSE IF cur.t # "Array" THEN ReadErr("ExpectedArray")
              ELSE IF path[j].i = 0 \/ path[j].i > Len(cur.a) THEN ReadErr("MissingIndex")
              ELSE FromLoopOffByOne(cur.a[path[j].i], path, j + 1)

\* the loop `for segment in from_segments`, from position j with `from` = cur
RECURSIVE FromLoop(_, _, _)
FromLoop(cur, path, j) ==
    IF j > Len(path) THEN ReadOk(cur)
    ELSE IF path[j].k = "Key"
         THEN IF cur.t # "Object" THEN ReadErr("ExpectedObject")
              ELSE IF path[j].s \notin DOMAIN cur.o THEN ReadErr("MissingKey")
              ELSE FromLoop(cur.o[path[j].s], path, j + 1)
         ELSE IF cur.t # "Array" THEN ReadErr("ExpectedArray")
              ELSE IF ~ArrayHasIndex(cur.a, path[j].i) THEN ReadErr("MissingIndex")
              ELSE FromLoop(cur.a[path[j].i + 1], path, j + 1)

\* a read that returns the value the first segment names
FromFirstSegment(field, body) ==
    IF Len(field.from) = 0 \/ field.from[1].k # "Key" THEN ReadErr("Reject")
    ELSE IF field.from[1].s \notin DOMAIN body THEN ReadErr("MissingKey")
    ELSE IF FromLoop(body[field.from[1].s], field.from, 2).ok
    THEN ReadOk(body[field.from[1].s])
    ELSE FromLoop(body[field.from[1].s], field.from, 2)

\* fn from(field, body, id)
From(field, body) ==
    IF Len(field.from) = 0 \/ field.from[1].k # "Key" THEN ReadErr("Reject")
    ELSE IF field.from[1].s \notin DOMAIN body THEN ReadErr("MissingKey")
    ELSE FromLoop(body[field.from[1].s], field.from, 2)

(***************************************************************************)
(* The write of one mapping (handler, lines 241-261).  WriteLoop gives the *)
(* value held at the location `to` refers to once the remaining segments   *)
(* j.. and the assignment *to = from.clone() have run, with the way the    *)
(* run ended: "ok", "reject" (or_reject()?) or "panic" (unwrap on None).   *)
(***************************************************************************)
\* a write whose final assignment leaves a container that is already there
RECURSIVE WriteLoopKeepContainer(_, _, _, _)
WriteLoopKeepContainer(cur, path, j, v) ==
    IF j > Len(path)
    THEN [st |-> "ok", val |-> IF cur.t \in {"Object", "Array"} THEN cur ELSE v]
    ELSE IF path[j].k = "Key"
         THEN IF cur.t # "Object" THEN [st |-> "reject", val |-> cur]
              ELSE LET obj == ObjectGetOrInsert(cur.o, path[j].s, match_peek(path, j))
                       r   == WriteLoopKeepContainer(obj[path[j].s], path, j + 1, v)
                   IN  [st |-> r.st, val |-> Obj([obj EXCEPT ![path[j].s] = r.val])]
         ELSE IF cur.t # "Array" THEN [st |-> "reject", val |-> cur]
              ELSE LET ary == ArrayGetOrInsert(cur.a, path[j].i, match_peek(path, j))
                   IN  IF ~ArrayHasIndex(ary, path[j].i)
                       THEN [st |-> "panic", val |-> Arr(ary)]
                       ELSE LET r == WriteLoopKeepContainer(ary[path[j].i + 1], path, j + 1, v)
                            IN  [st |-> r.st,
                                 val |-> Arr([ary EXCEPT ![path[j].i + 1] = r.val])]

RECURSIVE WriteLoop(_, _, _, _)
WriteLoop(cur, path, j, v) ==
    IF j > Len(path) THEN [st |-> "ok", val |-> v]
    ELSE IF path[j].k = "Key"
         THEN IF cur.t # "Object" THEN [st |-> "reject", val |-> cur]
              ELSE LET obj == ObjectGetOrInsert(cur.o, path[j].s, match_peek(path, j))
                       r   == WriteLoop(obj[path[j].s], path, j + 1, v)
                   IN  [st |-> r.st, val |-> Obj([obj EXCEPT ![path[j].s] = r.val])]
         ELSE IF cur.t # "Array" THEN [st |-> "reject", val |-> cur]
              ELSE LET ary == ArrayGetOrInsert(cur.a, path[j].i, match_peek(path, j))
                   IN  IF ~ArrayHasIndex(ary, path[j].i)
                       THEN [st |-> "panic", val |-> Arr(ary)]
                       ELSE LET r == WriteLoop(ary[path[j].i + 1], path, j + 1, v)
                            IN  [st |-> r.st,
                                 val |-> Arr([ary EXCEPT ![path[j].i + 1] = r.val])]

\* a write that leaves forwarded alone, and succeeds, where the write rejects
WriteFieldLenient(fwd, to, v) ==
    IF Len(to) = 0 \/ to[1].k # "Key" THEN [st |-> "ok", doc |-> fwd]
    ELSE LET r == WriteLoop(Obj(fwd), to, 1, v)
         IN  [st |-> IF r.st = "reject" THEN "ok" ELSE r.st,
              doc |-> IF r.st = "reject" THEN fwd ELSE r.val.o]

\* the whole write of value v at path `to` into the JsonObject forwarded:
\* [st, doc]
WriteField(fwd, to, v) ==
    IF Len(to) = 0 \/ to[1].k # "Key" THEN [st |-> "reject", doc |-> fwd]
    ELSE LET r == WriteLoop(Obj(fwd), to, 1, v)
         IN  [st |-> r.st, doc |-> r.val.o]

(***************************************************************************)
(* Inputs.  MaxFields bounds the number of field mappings of a route,      *)
(* MaxFromLen the length of the from paths of the read family, MaxToLen    *)
(* the length of the to paths of the write family and MaxReqs the number   *)
(* of requests.                                                            *)
(***************************************************************************)
MaxFields == 3

MaxFromLen == 3

MaxToLen == 2

MaxReqs == 2

Reqs == 1..MaxReqs

\* sequences over S of length 0..n
SeqsUpTo(S, n) == UNION {[1..m -> S] : m \in 0..n}

\* the inbound body of the dispatch family:
\* {"user":{"id":42},"n":7,"arr":[1],"z":null}
Body1 ==
    [x \in {"user", "n", "arr", "z"} |->
        CASE x = "user" -> Obj([y \in {"id"} |-> Num(42)])
          [] x = "n"    -> Num(7)
          [] x = "arr"  -> Arr(<<Num(1)>>)
          [] OTHER      -> Null]

\* the inbound body of the path families:
\* {"a":{"a":[1,{"b":2}],"b":3},"b":[[4],null]}
Body2 ==
    [x \in {"a", "b"} |->
        IF x = "a"
        THEN Obj([y \in {"a", "b"} |->
                 IF y = "a" THEN Arr(<<Num(1), Obj([z \in {"b"} |-> Num(2)])>>)
                 ELSE Num(3)])
        ELSE Arr(<<Arr(<<Num(4)>>), Null>>)]

FromId == <<Key("user"), Key("id")>>

FromN == <<Key("n")>>

\* the field mappings the routes of the dispatch family are built from
HookFields ==
    { Field(FromId, <<Key("a"), Key("b")>>, FALSE),
      Field(FromN, <<Key("a"), Key("b")>>, FALSE),
      Field(FromN, <<Key("a"), Key("c")>>, FALSE),
      Field(FromN, <<Key("a")>>, TRUE),
      Field(<<Key("z")>>, <<Key("a")>>, FALSE),
      Field(FromId, <<Key("items"), Index(2)>>, FALSE),
      Field(FromId, <<Key("items"), Index(0)>>, FALSE),
      Field(FromN, <<Key("items"), Index(1)>>, FALSE),
      Field(FromId, <<Key("items"), Index(2), Key("k")>>, FALSE),
      Field(FromN, <<Key("items"), Index(0), Key("k")>>, TRUE),
      Field(<<Key("arr")>>, <<Key("items")>>, FALSE),
      Field(<<Key("nope")>>, <<Key("a"), Key("c")>>, TRUE),
      Field(<<Key("nope")>>, <<Key("a"), Key("c")>>, FALSE) }

\* the segments and paths of the read and write families
Segments == {Key("a"), Key("b"), Index(0), Index(1)}

FromPaths == SeqsUpTo(Segments, MaxFromLen)

ToPaths == SeqsUpTo(Segments, MaxToLen)

\* struct Webhook
Webhook(url, method, fields, reply) ==
    [forward_url |-> url, forward_method |-> method, fields |-> fields,
     reply |-> reply]

\* Option<JsonObject>
None == [some |-> FALSE, val |-> EmptyObject]

Some(m) == [some |-> TRUE, val |-> m]

\* the route of the end-to-end scenario: fields=[{from:["user","id"],
\* to:["uid"]}], reply={"ok":true} (true is held as the number 1)
OtherHook ==
    Webhook("http://upstream.example/x", "PUT",
            <<Field(FromId, <<Key("uid")>>, FALSE)>>,
            Some([x \in {"ok"} |-> Num(1)]))

\* struct Config: debug and webhooks (a HashMap from route id to Webhook)
Config(debug, hook) ==
    [debug |-> debug,
     webhooks |-> [x \in {"test", "other"} |-> IF x = "test" THEN hook ELSE OtherHook]]

\* the "test" routes of each family
DispatchHooks ==
    {Webhook("http://upstream.example/t", "POST", fs, None) :
        fs \in SeqsUpTo(HookFields, MaxFields)}

ReadHooks ==
    {Webhook("http://upstream.example/t", "PATCH",
             <<Field(p, <<Key("uid")>>, opt)>>, None) :
        p \in FromPaths, opt \in BOOLEAN}

WriteHooks ==
    {Webhook("http://upstream.example/t", "POST",
             <<Field(FromN, p, TRUE), Field(FromId, q, FALSE)>>, None) :
        p \in ToPaths, q \in ToPaths}

\* an optional field from any path to a to path that is empty, starts with
\* an Index or is well formed, followed by a required field
SkipTos == {<<>>, <<Index(0)>>, <<Key("a")>>}

SkipHooks ==
    {Webhook("http://upstream.example/t", "POST",
             <<Field(p, t, TRUE), Field(<<Key("b")>>, <<Key("uid")>>, FALSE)>>, None) :
        p \in FromPaths, t \in SkipTos}

\* a body that differs from Body1 in the values and has no "n"
Body3 == [x \in {"user"} |-> Obj([y \in {"id"} |-> Num(43)])]

\* the "test" routes of the concurrent runs: two writes; a skip and a
\* padded write; a write to ["items",0]; a write through a scalar; a
\* required field that is missing
ConcHooks ==
    {Webhook("http://upstream.example/t", "POST", fs, None) :
        fs \in { <<Field(FromId, <<Key("a"), Key("b")>>, FALSE),
                   Field(FromN, <<Key("a"), Key("c")>>, FALSE)>>,
                 <<Field(<<Key("nope")>>, <<Key("a"), Key("c")>>, TRUE),
                   Field(FromN, <<Key("items"), Index(1)>>, TRUE)>>,
                 <<Field(FromId, <<Key("items"), Index(0)>>, FALSE)>>,
                 <<Field(FromN, <<Key("a")>>, TRUE),
                   Field(FromId, <<Key("a"), Key("b")>>, FALSE)>>,
                 <<Field(<<Key("nope")>>, <<Key("a"), Key("c")>>, FALSE)>> }}

\* the "test" routes of the runs compared under debug and without it
MaxPairFields == 2

PairHooks ==
    {Webhook("http://upstream.example/t", "POST", fs, None) :
        fs \in SeqsUpTo(HookFields, MaxPairFields)}

RouteHooks ==
    {Webhook("http://upstream.example/t", "POST", fs, None) :
        fs \in SeqsUpTo(HookFields, 1)}

(***************************************************************************)
(* State.  config is the shared Arc<Config>; the other variables are the   *)
(* arguments and locals of one run of handler per request r.               *)
(***************************************************************************)
VARIABLES
    config,     \* Arc<Config>
    id,         \* id[r]: the route id of the request
    body,       \* body[r]: the JsonObject of the request
    pc,         \* pc[r]: where handler is
    hook,       \* hook[r]: the Webhook bound by the lookup (the local `config`)
    idx,        \* idx[r]: position of the loop over config.fields
    fromv,      \* fromv[r]: the value `from` read for the current field
    forwarded,  \* forwarded[r]: the JsonObject being built
    sent,       \* sent[r]: the requests sent upstream by this run
    result,     \* result[r]: the reply or rejection handler returned
    trace       \* trace[r]: per field processed, what happened and the
                \*           forwarded document after it

vars == <<config, id, body, pc, hook, idx, fromv, forwarded, sent, result, trace>>

NoHook == Webhook("", "POST", <<>>, None)

NoResult == [kind |-> "none", json |-> EmptyObject, log |-> "none"]

\* Ok(warp::reply::json(o))
Reply(o) == [kind |-> "reply", json |-> o, log |-> "none"]

\* Err(warp::reject::not_found()) and Err(warp::reject()); log is the
\* message printed on the way
Rejection(kind, log) == [kind |-> kind, json |-> EmptyObject, log |-> log]

InitWith(cfgs, bodies, ids, active) ==
    /\ config \in cfgs
    /\ \E i \in [active -> ids] :
          id = [r \in Reqs |-> IF r \in active THEN i[r] ELSE ""]
    /\ \E b \in [active -> bodies] :
          body = [r \in Reqs |-> IF r \in active THEN b[r] ELSE EmptyObject]
    /\ pc = [r \in Reqs |-> IF r \in active THEN "Start" ELSE "Idle"]
    /\ hook = [r \in Reqs |-> NoHook]
    /\ idx = [r \in Reqs |-> 0]
    /\ fromv = [r \in Reqs |-> Null]
    /\ forwarded = [r \in Reqs |-> EmptyObject]
    /\ sent = [r \in Reqs |-> <<>>]
    /\ result = [r \in Reqs |-> NoResult]
    /\ trace = [r \in Reqs |-> <<>>]

\* one request: the others stay idle
Init ==
    \/ InitWith({Config(d, h) : d \in BOOLEAN, h \in DispatchHooks},
                   {Body1}, {"test"}, {1})
    \/ InitWith({Config(d, h) : d \in BOOLEAN, h \in ReadHooks \cup WriteHooks \cup SkipHooks},
                {Body1, Body2, EmptyObject}, {"test"}, {1})
    \/ InitWith({Config(d, h) : d \in BOOLEAN, h \in RouteHooks},
                {Body1, EmptyObject}, {"test", "other", "nope"}, {1})

\* one request to a service started with debug set or not
InitPair ==
    InitWith({Config(d, h) : d \in BOOLEAN, h \in PairHooks},
             {Body1}, {"test", "other", "nope"}, {1})

\* every request in flight at once: warp::serve runs handler once per
\* request, each run with its own id and body and the one Arc<Config>
InitConc ==
    InitWith({Config(d, h) : d \in BOOLEAN, h \in ConcHooks},
             {Body1, Body3}, {"test", "other"}, Reqs)

(***************************************************************************)
(* handler, one action per step.                                           *)
(***************************************************************************)
\* a lookup that falls back to the route "test"
LookupWithDefault(webhooks, i) ==
    IF i \in DOMAIN webhooks THEN Some(webhooks[i]) ELSE Some(webhooks["test"])

\* config.webhooks.get(&id)
Lookup(webhooks, i) ==
    IF i \in DOMAIN webhooks THEN Some(webhooks[i]) ELSE [some |-> FALSE, val |-> NoHook]

\* lines 212-217: the lookup of the route and the empty forwarded object
RouteLookup(r) ==
    /\ pc[r] = "Start"
    /\ LET found == Lookup(config.webhooks, id[r])
       IN  IF found.some
           THEN /\ hook' = [hook EXCEPT ![r] = found.val]
                /\ idx' = [idx EXCEPT ![r] = 1]
                /\ pc' = [pc EXCEPT ![r] = "ReadField"]
                /\ result' = result
           ELSE /\ pc' = [pc EXCEPT ![r] = "Fail"]
                /\ result' = [result EXCEPT ![r] = Rejection("not_found", "none")]
                /\ UNCHANGED <<hook, idx>>
    /\ forwarded' = [forwarded EXCEPT ![r] = EmptyObject]
    /\ UNCHANGED <<config, id, body, fromv, sent, trace>>

\* what one processed field adds to the trace: what happened, the message
\* logged, and forwarded afterwards
Event(ev, log, doc) == [ev |-> ev, log |-> log, doc |-> doc]

\* a loop that goes on after every failed read
ReadFailureAlwaysContinue(field) == "continue"

\* a loop that returns on every failed read
ReadFailureAlwaysReturn(field) == "return"

\* lines 222-228: what the loop does with a failed read
ReadFailure(field) == IF field.optional THEN "continue" ELSE "return"

\* a loop that skips an optional field only when its read met a missing key
ReadFieldSkipsMissingKeyOnly(r) ==
    /\ pc[r] = "ReadField"
    /\ idx[r] <= Len(hook[r].fields)
    /\ LET field == hook[r].fields[idx[r]]
           f     == From(field, body[r])
       IN  IF f.ok
           THEN /\ fromv' = [fromv EXCEPT ![r] = f.val]
                /\ pc' = [pc EXCEPT ![r] = "WriteField"]
                /\ UNCHANGED <<idx, result, trace>>
           ELSE IF ReadFailure(field) = "continue" /\ f.err = "MissingKey"
           THEN /\ idx' = [idx EXCEPT ![r] = idx[r] + 1]
                /\ trace' = [trace EXCEPT ![r] = Append(@, Event("skip", f.err, forwarded[r]))]
                /\ UNCHANGED <<fromv, pc, result>>
           ELSE /\ pc' = [pc EXCEPT ![r] = "Fail"]
                /\ result' = [result EXCEPT ![r] = Rejection("reject", f.err)]
                /\ trace' = [trace EXCEPT ![r] = Append(@, Event("readfail", f.err, forwarded[r]))]
                /\ UNCHANGED <<fromv, idx>>
    /\ UNCHANGED <<config, id, body, hook, forwarded, sent>>

\* lines 219-229: the read of the next field; a failed read skips an
\* optional field and rejects the request otherwise
ReadField(r) ==
    /\ pc[r] = "ReadField"
    /\ idx[r] <= Len(hook[r].fields)
    /\ LET field == hook[r].fields[idx[r]]
           f     == From(field, body[r])
       IN  IF f.ok
           THEN /\ fromv' = [fromv EXCEPT ![r] = f.val]
                /\ pc' = [pc EXCEPT ![r] = "WriteField"]
                /\ UNCHANGED <<idx, result, trace>>
           ELSE IF ReadFailure(field) = "continue"
           THEN /\ idx' = [idx EXCEPT ![r] = idx[r] + 1]
                /\ trace' = [trace EXCEPT ![r] = Append(@, Event("skip", f.err, forwarded[r]))]
                /\ UNCHANGED <<fromv, pc, result>>
           ELSE /\ pc' = [pc EXCEPT ![r] = "Fail"]
                /\ result' = [result EXCEPT ![r] = Rejection("reject", f.err)]
                /\ trace' = [trace EXCEPT ![r] = Append(@, Event("readfail", f.err, forwarded[r]))]
                /\ UNCHANGED <<fromv, idx>>
    /\ UNCHANGED <<config, id, body, hook, forwarded, sent>>

\* a handler that writes into one document shared by the requests
WriteMappingShared(r) ==
    /\ pc[r] = "WriteField"
    /\ LET field == hook[r].fields[idx[r]]
           w     == WriteField(forwarded[r], field.to, fromv[r])
       IN  /\ forwarded' = [q \in Reqs |-> IF pc[q] # "Idle" THEN w.doc ELSE forwarded[q]]
           /\ IF w.st = "ok"
              THEN /\ idx' = [idx EXCEPT ![r] = idx[r] + 1]
                   /\ pc' = [pc EXCEPT ![r] = "ReadField"]
                   /\ trace' = [trace EXCEPT ![r] = Append(@, Event("write", "none", w.doc))]
                   /\ result' = result
              ELSE IF w.st = "reject"
              THEN /\ pc' = [pc EXCEPT ![r] = "Fail"]
                   /\ result' = [result EXCEPT ![r] = Rejection("reject", "none")]
                   /\ trace' = [trace EXCEPT ![r] = Append(@, Event("writefail", "none", w.doc))]
                   /\ idx' = idx
              ELSE /\ pc' = [pc EXCEPT ![r] = "Panic"]
                   /\ trace' = [trace EXCEPT ![r] = Append(@, Event("panic", "none", w.doc))]
                   /\ UNCHANGED <<idx, result>>
    /\ UNCHANGED <<config, id, body, hook, fromv, sent>>

\* lines 231-261: the write of the value read into forwarded
WriteMapping(r) ==
    /\ pc[r] = "WriteField"
    /\ LET field == hook[r].fields[idx[r]]
           w     == WriteField(forwarded[r], field.to, fromv[r])
       IN  /\ forwarded' = [forwarded EXCEPT ![r] = w.doc]
           /\ IF w.st = "ok"
              THEN /\ idx' = [idx EXCEPT ![r] = idx[r] + 1]
                   /\ pc' = [pc EXCEPT ![r] = "ReadField"]
                   /\ trace' = [trace EXCEPT ![r] = Append(@, Event("write", "none", w.doc))]
                   /\ result' = result
              ELSE IF w.st = "reject"
              THEN /\ pc' = [pc EXCEPT ![r] = "Fail"]
                   /\ result' = [result EXCEPT ![r] = Rejection("reject", "none")]
                   /\ trace' = [trace EXCEPT ![r] = Append(@, Event("writefail", "none", w.doc))]
                   /\ idx' = idx
              ELSE /\ pc' = [pc EXCEPT ![r] = "Panic"]
                   /\ trace' = [trace EXCEPT ![r] = Append(@, Event("panic", "none", w.doc))]
                   /\ UNCHANGED <<idx, result>>
    /\ UNCHANGED <<config, id, body, hook, fromv, sent>>

\* a request that is always a POST
RequestAlwaysPost(h, doc) == [method |-> "POST", url |-> h.forward_url, json |-> doc]

\* the request built at lines 265-271
Request(h, doc) == [method |-> h.forward_method, url |-> h.forward_url, json |-> doc]

\* a handler that sends the request whatever debug is
DispatchIgnoringDebug(r) ==
    /\ pc[r] = "ReadField"
    /\ idx[r] > Len(hook[r].fields)
    /\ sent' = [sent EXCEPT ![r] = Append(@, Request(hook[r], forwarded[r]))]
    /\ pc' = [pc EXCEPT ![r] = "Forward"]
    /\ UNCHANGED <<config, id, body, hook, idx, fromv, forwarded, trace, result>>

\* a handler that replies in debug what it replies after a send
DispatchDebugRepliesConfigured(r) ==
    /\ pc[r] = "ReadField"
    /\ idx[r] > Len(hook[r].fields)
    /\ IF ~config.debug
       THEN /\ sent' = [sent EXCEPT ![r] = Append(@, Request(hook[r], forwarded[r]))]
            /\ pc' = [pc EXCEPT ![r] = "Forward"]
            /\ result' = result
       ELSE /\ pc' = [pc EXCEPT ![r] = "Respond"]
            /\ result' = [result EXCEPT ![r] =
                             IF hook[r].reply.some THEN Reply(hook[r].reply.val)
                             ELSE Reply(EmptyObject)]
            /\ sent' = sent
    /\ UNCHANGED <<config, id, body, hook, idx, fromv, forwarded, trace>>

\* lines 264-271 and 279: after the loop, debug replies with forwarded;
\* otherwise the request is sent and the handler awaits the answer
Dispatch(r) ==
    /\ pc[r] = "ReadField"
    /\ idx[r] > Len(hook[r].fields)
    /\ IF ~config.debug
       THEN /\ sent' = [sent EXCEPT ![r] = Append(@, Request(hook[r], forwarded[r]))]
            /\ pc' = [pc EXCEPT ![r] = "Forward"]
            /\ result' = result
       ELSE /\ pc' = [pc EXCEPT ![r] = "Respond"]
            /\ result' = [result EXCEPT ![r] = Reply(forwarded[r])]
            /\ sent' = sent
    /\ UNCHANGED <<config, id, body, hook, idx, fromv, forwarded, trace>>

\* a handler that replies the document it sent
UpstreamOkRepliesForwarded(r) ==
    /\ pc[r] = "Forward"
    /\ pc' = [pc EXCEPT ![r] = "Respond"]
    /\ result' = [result EXCEPT ![r] = Reply(forwarded[r])]
    /\ UNCHANGED <<config, id, body, hook, idx, fromv, forwarded, sent, trace>>

\* lines 272-277: send() returned Ok; the reply is config.reply or {}
UpstreamOk(r) ==
    /\ pc[r] = "Forward"
    /\ pc' = [pc EXCEPT ![r] = "Respond"]
    /\ result' = [result EXCEPT ![r] =
                    IF hook[r].reply.some THEN Reply(hook[r].reply.val)
                    ELSE Reply(EmptyObject)]
    /\ UNCHANGED <<config, id, body, hook, idx, fromv, forwarded, sent, trace>>

\* lines 272-273: send() returned Err; or_reject()? logs it and rejects
UpstreamErr(r) ==
    /\ pc[r] = "Forward"
    /\ pc' = [pc EXCEPT ![r] = "Fail"]
    /\ result' = [result EXCEPT ![r] = Rejection("reject", "SendError")]
    /\ UNCHANGED <<config, id, body, hook, idx, fromv, forwarded, sent, trace>>

Next ==
    \E r \in Reqs :
        \/ RouteLookup(r)
        \/ ReadField(r)
        \/ WriteMapping(r)
        \/ Dispatch(r)
        \/ UpstreamOk(r)
        \/ UpstreamErr(r)

Spec == Init /\ [][Next]_vars

(***************************************************************************)
(* The same request against the same routes with debug the other way.      *)
(* main reads the configuration once, at startup (lines 178-182): once the *)
(* run of request r has ended, the service is started again from a         *)
(* configuration file that differs in `debug` only, and request r+1        *)
(* arrives with the route id and the body of request r.                    *)
(***************************************************************************)
Ended(r) == pc[r] \in {"Respond", "Fail", "Panic"}

Restart(r) ==
    /\ r + 1 \in Reqs
    /\ Ended(r)
    /\ pc[r + 1] = "Idle"
    /\ config' = [config EXCEPT !.debug = ~config.debug]
    /\ id' = [id EXCEPT ![r + 1] = id[r]]
    /\ body' = [body EXCEPT ![r + 1] = body[r]]
    /\ pc' = [pc EXCEPT ![r + 1] = "Start"]
    /\ UNCHANGED <<hook, idx, fromv, forwarded, sent, result, trace>>

NextPair ==
    \E r \in Reqs :
        \/ RouteLookup(r)
        \/ ReadField(r)
        \/ WriteMapping(r)
        \/ Dispatch(r)
        \/ UpstreamOk(r)
        \/ UpstreamErr(r)
        \/ Restart(r)

SpecPair == InitPair /\ [][NextPair]_vars

\* the requests of InitConc, their steps interleaved in every order
SpecConc == InitConc /\ [][Next]_vars

(***************************************************************************)
(* handler run alone, as one function of its arguments: the loop of lines  *)
(* 219-262 from field k on, with forwarded = doc and the events tr so far. *)
(* `end` is how the loop is left: "done", "reject" (return Err) or         *)
(* "panic".                                                                *)
(***************************************************************************)
RECURSIVE AloneLoop(_, _, _, _, _)
AloneLoop(fields, k, b, doc, tr) ==
    IF k > Len(fields)
    THEN [end |-> "done", doc |-> doc, trace |-> tr, log |-> "none"]
    ELSE LET f == From(fields[k], b)
         IN  IF ~f.ok
             THEN IF ReadFailure(fields[k]) = "continue"
                  THEN AloneLoop(fields, k + 1, b, doc, Append(tr, Event("skip", f.err, doc)))
                  ELSE [end |-> "reject", doc |-> doc, log |-> f.err,
                        trace |-> Append(tr, Event("readfail", f.err, doc))]
             ELSE LET w == WriteField(doc, fields[k].to, f.val)
                  IN  IF w.st = "ok"
                      THEN AloneLoop(fields, k + 1, b, w.doc,
                                     Append(tr, Event("write", "none", w.doc)))
                      ELSE IF w.st = "reject"
                      THEN [end |-> "reject", doc |-> w.doc, log |-> "none",
                            trace |-> Append(tr, Event("writefail", "none", w.doc))]
                      ELSE [end |-> "panic", doc |-> w.doc, log |-> "none",
                            trace |-> Append(tr, Event("panic", "none", w.doc))]

\* lines 212-262 for the route id i and the body b
Alone(cfg, i, b) ==
    IF ~Lookup(cfg.webhooks, i).some
    THEN [end |-> "not_found", doc |-> EmptyObject, trace |-> <<>>, log |-> "none"]
    ELSE AloneLoop(Lookup(cfg.webhooks, i).val.fields, 1, b, EmptyObject, <<>>)

(***************************************************************************)
(* Vocabulary of the properties: JSON paths as the design document reads   *)
(* them, stated on the document and independent of the handler's loops.    *)
(***************************************************************************)
\* the child of value v that segment g names, when HasChild(v, g)
HasChild(v, g) ==
    IF g.k = "Key" THEN v.t = "Object" /\ g.s \in DOMAIN v.o
    ELSE v.t = "Array" /\ g.i + 1 \in DOMAIN v.a

Child(v, g) == IF g.k = "Key" THEN v.o[g.s] ELSE v.a[g.i + 1]

\* every segment of path p names a child, starting at value v
RECURSIVE Resolves(_, _)
Resolves(v, p) ==
    \/ p = <<>>
    \/ HasChild(v, Head(p)) /\ Resolves(Child(v, Head(p)), Tail(p))

\* the subtree of v located at p, when Resolves(v, p)
RECURSIVE Subtree(_, _)
Subtree(v, p) == IF p = <<>> THEN v ELSE Subtree(Child(v, Head(p)), Tail(p))

\* p is a path of a document rooted at an object: not empty, and resolving
ResolvesIn(doc, p) == p # <<>> /\ Resolves(Obj(doc), p)

SubtreeIn(doc, p) == Subtree(Obj(doc), p)

Prefix(p, n) == SubSeq(p, 1, n)

IsPrefix(p, q) == Len(p) <= Len(q) /\ Prefix(q, Len(p)) = p

\* the requests that have started
Started == {r \in Reqs : pc[r] \notin {"Idle", "Start"}}

\* the fields of the route of request r, and the field the k-th event of
\* its trace is about
FieldsOf(r) == hook[r].fields

\* forwarded before the k-th field of request r was processed
DocBefore(r, k) == IF k = 1 THEN EmptyObject ELSE trace[r][k - 1].doc

DocAfter(r, k) == trace[r][k].doc

\* the read of the k-th field succeeded, by what the trace records
ReadSucceeded(r, k) == trace[r][k].ev \in {"write", "writefail", "panic"}

\* the rejection came from the lookup, a read or a write
FieldOrRouteFailure(r) == pc[r] = "Fail" /\ result[r].log # "SendError"

(***************************************************************************)
(* C1  No partial forward.  A request is sent upstream only when the loop  *)
(* has processed every field of the route, every field with a successful   *)
(* read was written and only optional fields were skipped; a run that      *)
(* failed in the lookup, a read or a write, or that panicked, has sent     *)
(* nothing; no run sends more than one request.                            *)
(***************************************************************************)
C1_NoPartialForward ==
    \A r \in Reqs :
        /\ Len(sent[r]) <= 1
        /\ sent[r] # <<>> =>
              /\ Len(trace[r]) = Len(FieldsOf(r))
              /\ idx[r] = Len(FieldsOf(r)) + 1
              /\ \A k \in 1..Len(trace[r]) :
                    \/ trace[r][k].ev = "write"
                    \/ trace[r][k].ev = "skip" /\ FieldsOf(r)[k].optional
        /\ (FieldOrRouteFailure(r) \/ pc[r] = "Panic") => sent[r] = <<>>

\* a request was sent for a route with three fields, one of them skipped
C1_Witness ==
    \E r \in Reqs :
        /\ sent[r] # <<>>
        /\ Len(FieldsOf(r)) = 3
        /\ \E k \in 1..3 : trace[r][k].ev = "skip"
        /\ \E k \in 1..3 : trace[r][k].ev = "write"

(***************************************************************************)
(* C2  Optional skip.  A processed field whose from path does not resolve  *)
(* in the body: when optional, it is skipped, forwarded is as before it    *)
(* and the loop goes on with the next field; when not optional, the run    *)
(* is rejected there, no later field is processed and nothing was sent.    *)
(***************************************************************************)
C2_OptionalSkip ==
    \A r \in Reqs : \A k \in 1..Len(trace[r]) :
        ~ResolvesIn(body[r], FieldsOf(r)[k].from) =>
            IF FieldsOf(r)[k].optional
            THEN /\ trace[r][k].ev = "skip"
                 /\ DocAfter(r, k) = DocBefore(r, k)
                 /\ idx[r] > k
                 /\ pc[r] # "Panic" \/ k < Len(trace[r])
                 /\ k = Len(trace[r]) =>
                       /\ forwarded[r] = DocBefore(r, k)
                       /\ pc[r] \in {"ReadField", "WriteField", "Forward", "Respond", "Fail"}
                       /\ pc[r] = "Fail" => result[r].log = "SendError"
            ELSE /\ trace[r][k].ev = "readfail"
                 /\ k = Len(trace[r])
                 /\ idx[r] = k
                 /\ pc[r] = "Fail"
                 /\ result[r].kind = "reject"
                 /\ sent[r] = <<>>
                 /\ forwarded[r] = DocBefore(r, k)

\* an optional field with a missing from path was skipped after a write and
\* the next field was written
C2_Witness ==
    \E r \in Reqs :
        /\ Len(trace[r]) = 3
        /\ trace[r][1].ev = "write"
        /\ trace[r][2].ev = "skip"
        /\ ~ResolvesIn(body[r], FieldsOf(r)[2].from)
        /\ trace[r][3].ev = "write"
        /\ DocAfter(r, 2) = DocAfter(r, 1)
        /\ DocAfter(r, 2) # EmptyObject

(***************************************************************************)
(* Vocabulary of the write properties.                                     *)
(***************************************************************************)
\* the value the k-th field of request r reads: the subtree at its from path
ValueRead(r, k) == SubtreeIn(body[r], FieldsOf(r)[k].from)

\* Walking the remaining segments p of a to path from value v (or from a
\* container just created, when fresh), the walk comes to an Index(i)
\* segment on an array of fewer than i+1 elements without meeting a value
\* of the wrong type first.
RECURSIVE ReachesShortArray(_, _, _)
ReachesShortArray(v, p, fresh) ==
    IF p = <<>> THEN FALSE
    ELSE LET g == Head(p)
         IN  IF fresh
             THEN g.k = "Index" \/ ReachesShortArray(Null, Tail(p), TRUE)
             ELSE IF g.k = "Key"
             THEN /\ v.t = "Object"
                  /\ IF g.s \in DOMAIN v.o
                     THEN ReachesShortArray(v.o[g.s], Tail(p), FALSE)
                     ELSE ReachesShortArray(Null, Tail(p), TRUE)
             ELSE /\ v.t = "Array"
                  /\ IF g.i < Len(v.a)
                     THEN ReachesShortArray(v.a[g.i + 1], Tail(p), FALSE)
                     ELSE TRUE

\* {"items":[v]}
ItemsOf(s) == [x \in {"items"} |-> Arr(s)]

ToItems0 == <<Key("items"), Index(0)>>

ToItems1 == <<Key("items"), Index(1)>>

ToItems2 == <<Key("items"), Index(2)>>

ToAB == <<Key("a"), Key("b")>>

(***************************************************************************)
(* C3  Array extension on write.  Whenever the write of a field whose read *)
(* succeeded comes to an Index(i) segment on an array of fewer than i+1    *)
(* elements (length i included), the write succeeds and the to path then   *)
(* holds the value read; writing v to ["items",0] first gives              *)
(* {"items":[v]}, and ["items",0] then ["items",1] gives two elements.     *)
(***************************************************************************)
C3_ArrayExtension ==
    \A r \in Reqs : \A k \in 1..Len(trace[r]) :
        LET to == FieldsOf(r)[k].to
        IN  /\ (ReadSucceeded(r, k) /\ ReachesShortArray(Obj(DocBefore(r, k)), to, FALSE)) =>
                  /\ trace[r][k].ev = "write"
                  /\ ResolvesIn(DocAfter(r, k), to)
                  /\ SubtreeIn(DocAfter(r, k), to) = ValueRead(r, k)
            /\ (k = 1 /\ ReadSucceeded(r, k) /\ to = ToItems0) =>
                  DocAfter(r, k) = ItemsOf(<<ValueRead(r, k)>>)
            /\ (k = 2 /\ ReadSucceeded(r, 1) /\ ReadSucceeded(r, 2)
                  /\ FieldsOf(r)[1].to = ToItems0 /\ to = ToItems1) =>
                  DocAfter(r, k) = ItemsOf(<<ValueRead(r, 1), ValueRead(r, 2)>>)

(***************************************************************************)
(* C4  Write materialization shape.  After a successful write of the       *)
(* value read v at path to: the to path holds v; every container on the    *)
(* path that did not exist before is an Object holding only the next key   *)
(* when the next segment is a Key, and an Array of i+1 elements, Null      *)
(* before position i, when the next segment is Index(i).  On the empty     *)
(* document, ["a","b"] gives {"a":{"b":v}} and ["items",2] gives           *)
(* {"items":[null,null,v]}, and both writes succeed.                       *)
(***************************************************************************)
C4_WriteShape ==
    \A r \in Reqs : \A k \in 1..Len(trace[r]) :
        LET to   == FieldsOf(r)[k].to
            pre  == DocBefore(r, k)
            post == DocAfter(r, k)
        IN  /\ trace[r][k].ev = "write" =>
                  /\ ResolvesIn(post, to)
                  /\ SubtreeIn(post, to) = ValueRead(r, k)
                  /\ \A n \in 1..(Len(to) - 1) :
                        ~ResolvesIn(pre, Prefix(to, n)) =>
                            LET c == SubtreeIn(post, Prefix(to, n))
                                g == to[n + 1]
                            IN  IF g.k = "Key"
                                THEN c.t = "Object" /\ DOMAIN c.o = {g.s}
                                ELSE /\ c.t = "Array"
                                     /\ Len(c.a) = g.i + 1
                                     /\ \A m \in 1..g.i : c.a[m] = Null
            /\ (k = 1 /\ ReadSucceeded(r, k) /\ to = ToAB) =>
                  /\ trace[r][k].ev = "write"
                  /\ post = [x \in {"a"} |-> Obj([y \in {"b"} |-> ValueRead(r, k)])]
            /\ (k = 1 /\ ReadSucceeded(r, k) /\ to = ToItems2) =>
                  /\ trace[r][k].ev = "write"
                  /\ post = ItemsOf(<<Null, Null, ValueRead(r, k)>>)

\* ["a","b"] and then ["items",2] were written on the empty document
C4_Witness ==
    \E r \in Reqs :
        /\ Len(trace[r]) >= 2
        /\ FieldsOf(r)[1].to = ToAB
        /\ FieldsOf(r)[2].to = ToItems2
        /\ trace[r][1].ev = "write"
        /\ trace[r][2].ev = "write"
        /\ trace[r][2].doc["items"] = Arr(<<Null, Null, Num(42)>>)
        /\ trace[r][2].doc["a"] = Obj([y \in {"b"} |-> Num(42)])

(***************************************************************************)
(* C5  Every run of the handler ends in a reply or a rejection: no state   *)
(* is a crash, and a run that has neither replied nor been rejected can    *)
(* take a step.                                                            *)
(***************************************************************************)
C5_EndsInReplyOrRejection ==
    \A r \in Reqs :
        /\ pc[r] # "Panic"
        /\ pc[r] \in {"Respond", "Fail"} <=> result[r].kind # "none"
        /\ pc[r] \in {"Idle", "Respond", "Fail"}
              \/ ENABLED (RouteLookup(r) \/ ReadField(r) \/ WriteMapping(r)
                            \/ Dispatch(r) \/ UpstreamOk(r) \/ UpstreamErr(r))

\* every path that resolves from value v
RECURSIVE AllPaths(_)
AllPaths(v) ==
    {<<>>}
    \cup (IF v.t = "Object"
          THEN UNION {{<<Key(x)>> \o p : p \in AllPaths(v.o[x])} : x \in DOMAIN v.o}
          ELSE {})
    \cup (IF v.t = "Array"
          THEN UNION {{<<Index(m - 1)>> \o p : p \in AllPaths(v.a[m])} : m \in DOMAIN v.a}
          ELSE {})

\* neither path leads to the other's location or below it
Apart(p, q) == ~IsPrefix(p, q) /\ ~IsPrefix(q, p)

C7_ReadFidelity ==
    [][\A r \in Reqs :
          /\ body'[r] = body[r]
          /\ (pc[r] = "ReadField" /\ idx[r] <= Len(FieldsOf(r))
                /\ ResolvesIn(body[r], FieldsOf(r)[idx[r]].from)) =>
                /\ pc'[r] = "WriteField"
                /\ fromv'[r] = SubtreeIn(body[r], FieldsOf(r)[idx[r]].from)
          /\ (pc[r] = "ReadField" /\ pc'[r] = "WriteField") =>
                /\ ResolvesIn(body[r], FieldsOf(r)[idx[r]].from)
                /\ fromv'[r] = SubtreeIn(body[r], FieldsOf(r)[idx[r]].from)]_vars

\* the from path ["a","a",1] was read from Body2 and gave {"b":2}
C7_Witness ==
    \E r \in Reqs :
        /\ pc[r] = "WriteField"
        /\ body[r] = Body2
        /\ FieldsOf(r)[idx[r]].from = <<Key("a"), Key("a"), Index(1)>>
        /\ fromv[r] = Obj([z \in {"b"} |-> Num(2)])

(***************************************************************************)
(* Vocabulary of the read errors: the kind of error the design document    *)
(* names for each message the read logs.                                   *)
(***************************************************************************)
KindOfLog(log) ==
    CASE log = "MissingKey"     -> "MissingKey"
      [] log = "MissingIndex"   -> "MissingIndex"
      [] log = "ExpectedObject" -> "TypeMismatch"
      [] log = "ExpectedArray"  -> "TypeMismatch"
      [] OTHER                  -> "NoKind"

\* the error of the segments p after the first, walked from value v:
\* "none" when they all resolve
RECURSIVE LaterSegmentsError(_, _)
LaterSegmentsError(v, p) ==
    IF p = <<>> THEN "none"
    ELSE LET g == Head(p)
         IN  IF g.k = "Key"
             THEN IF v.t # "Object" THEN "TypeMismatch"
                  ELSE IF g.s \notin DOMAIN v.o THEN "MissingKey"
                  ELSE LaterSegmentsError(v.o[g.s], Tail(p))
             ELSE IF v.t # "Array" THEN "TypeMismatch"
                  ELSE IF g.i >= Len(v.a) THEN "MissingIndex"
                  ELSE LaterSegmentsError(v.a[g.i + 1], Tail(p))

\* the from path starts with a Key segment
WellFormed(p) == p # <<>> /\ p[1].k = "Key"

\* the cases of the claim as written: a first key absent from the body is
\* MissingKey, the later segments fail as above, every other read succeeds
ListedReadError(doc, p) ==
    IF ~WellFormed(p) THEN "none"
    ELSE IF p[1].s \notin DOMAIN doc THEN "MissingKey"
    ELSE LaterSegmentsError(doc[p[1].s], Tail(p))

\* the cases as amended: a from path that is empty or starts with an Index
\* segment fails too, rejected with no message ("NoKind")
ReadError(doc, p) == IF ~WellFormed(p) THEN "NoKind" ELSE ListedReadError(doc, p)

\* the k-th field of request r: its read failed / the kind it failed with
ReadFailed(r, k) == trace[r][k].ev \in {"skip", "readfail"}

\* what the reads of request r did, against the expected error `expect`
ReadOutcomes(r, expect(_, _)) ==
    /\ \A k \in 1..Len(trace[r]) :
          LET e == expect(body[r], FieldsOf(r)[k].from)
          IN  /\ ReadFailed(r, k) <=> e # "none"
              /\ ReadFailed(r, k) => KindOfLog(trace[r][k].log) = e
              /\ trace[r][k].ev = "readfail" =>
                    /\ pc[r] = "Fail"
                    /\ result[r] = Rejection("reject", trace[r][k].log)
    /\ pc[r] = "WriteField" => expect(body[r], FieldsOf(r)[idx[r]].from) = "none"
    /\ pc[r] = "Panic" => ReadSucceeded(r, Len(trace[r]))

(***************************************************************************)
(* C8 as written  Read error outcomes.  The read of a from path fails, as  *)
(* a rejection and never as a crash, exactly when its first key is absent  *)
(* from the body (MissingKey), a later Key segment meets a non-Object      *)
(* (TypeMismatch) or an Object without the key (MissingKey), or a later    *)
(* Index segment meets a non-Array (TypeMismatch) or an Array without the  *)
(* element (MissingIndex); every other read succeeds.                      *)
(***************************************************************************)
C8_ReadErrorsAsWritten == \A r \in Reqs : ReadOutcomes(r, ListedReadError)

(***************************************************************************)
(* C8  Read error outcomes, amended.  As written, and in addition the read *)
(* of a from path that is empty or starts with an Index segment fails,     *)
(* rejected with no message and no error kind; every other read succeeds.  *)
(***************************************************************************)
C8_ReadErrors == \A r \in Reqs : ReadOutcomes(r, ReadError)

\* a required read failed with MissingIndex on an array of Body2
C8_Witness ==
    \E r \in Reqs :
        /\ pc[r] = "Fail"
        /\ body[r] = Body2
        /\ trace[r] # <<>>
        /\ trace[r][1].ev = "readfail"
        /\ trace[r][1].log = "MissingIndex"
        /\ Len(FieldsOf(r)[1].from) = 3

\* the prefix of to before segment j resolves in doc to a value segment j
\* cannot enter: a Key on a non-Object, an Index on a non-Array
WrongContainerAt(doc, to, j) ==
    /\ ResolvesIn(doc, Prefix(to, j - 1))
    /\ IF to[j].k = "Key"
       THEN SubtreeIn(doc, Prefix(to, j - 1)).t # "Object"
       ELSE SubtreeIn(doc, Prefix(to, j - 1)).t # "Array"

\* the structural errors of a to path against the document doc
StructuralError(doc, to) ==
    \/ to = <<>>
    \/ to[1].k = "Index"
    \/ \E j \in 2..Len(to) : WrongContainerAt(doc, to, j)

(***************************************************************************)
(* C9  Write-path structural errors abort the dispatch.  When the read of  *)
(* a field succeeded and its to path is empty, starts with an Index, or    *)
(* comes with a Key segment to an Array or scalar or with an Index segment *)
(* to a non-Array, the run is rejected at that field, optional or not,     *)
(* with a plain rejection, and nothing is sent upstream.                   *)
(***************************************************************************)
C9_WriteErrorsAbort ==
    \A r \in Reqs : \A k \in 1..Len(trace[r]) :
        (ReadSucceeded(r, k) /\ StructuralError(DocBefore(r, k), FieldsOf(r)[k].to)) =>
            /\ trace[r][k].ev = "writefail"
            /\ k = Len(trace[r])
            /\ pc[r] = "Fail"
            /\ result[r] = Rejection("reject", "none")
            /\ sent[r] = <<>>

\* an optional field whose read succeeded met a Null where its to path
\* needs an Object, after an earlier field was written
C9_Witness ==
    \E r \in Reqs :
        /\ pc[r] = "Fail"
        /\ Len(trace[r]) = 2
        /\ trace[r][1].ev = "write"
        /\ trace[r][2].ev = "writefail"
        /\ FieldsOf(r)[2].optional
        /\ WrongContainerAt(DocBefore(r, 2), FieldsOf(r)[2].to, 3)

(***************************************************************************)
(* C10  Route lookup.  A run whose route id is not a key of                *)
(* config.webhooks is rejected with not_found, with debug set or not,      *)
(* having processed no field and sent nothing; a run whose id is a key     *)
(* works with that route: the fields it processes are that route's, and    *)
(* what it sends goes to that route's url with its method.                 *)
(***************************************************************************)
C10_RouteLookup ==
    \A r \in Started :
        IF id[r] \notin DOMAIN config.webhooks
        THEN /\ pc[r] = "Fail"
             /\ result[r] = Rejection("not_found", "none")
             /\ trace[r] = <<>>
             /\ fromv[r] = Null
             /\ forwarded[r] = EmptyObject
             /\ sent[r] = <<>>
        ELSE /\ hook[r] = config.webhooks[id[r]]
             /\ result[r].kind # "not_found"
             /\ Len(trace[r]) <= Len(config.webhooks[id[r]].fields)
             /\ idx[r] \in 1..(Len(config.webhooks[id[r]].fields) + 1)
             /\ \A k \in 1..Len(trace[r]) :
                   trace[r][k].ev = "write" =>
                       SubtreeIn(DocAfter(r, k), config.webhooks[id[r]].fields[k].to)
                           = SubtreeIn(body[r], config.webhooks[id[r]].fields[k].from)
             /\ \A m \in 1..Len(sent[r]) :
                   /\ sent[r][m].url = config.webhooks[id[r]].forward_url
                   /\ sent[r][m].method = config.webhooks[id[r]].forward_method

\* with debug set, an unknown route id was rejected with not_found
C10_Witness ==
    \E r \in Reqs :
        /\ config.debug
        /\ id[r] = "nope"
        /\ pc[r] = "Fail"
        /\ result[r].kind = "not_found"

\* the route "other" was looked up and its one field written to "uid"
C10_WitnessFound ==
    \E r \in Reqs :
        /\ id[r] = "other"
        /\ sent[r] # <<>>
        /\ sent[r][1].json = [x \in {"uid"} |-> Num(42)]

\* every field of the route of request r was processed, written or skipped
AllFieldsDone(r) ==
    /\ Len(trace[r]) = Len(FieldsOf(r))
    /\ \A k \in 1..Len(trace[r]) : trace[r][k].ev \in {"write", "skip"}

\* the reply the route of request r is configured with, {} when it has none
ConfiguredReply(r) ==
    IF config.webhooks[id[r]].reply.some
    THEN config.webhooks[id[r]].reply.val
    ELSE EmptyObject

(***************************************************************************)
(* C11  Debug mode.  With debug set, no run ever sends a request or waits  *)
(* for an answer; a run whose fields were all written or skipped replies,  *)
(* and what it replies is the forwarded document, not the configured       *)
(* reply.                                                                  *)
(***************************************************************************)
C11_DebugMode ==
    \A r \in Started :
        config.debug =>
            /\ sent[r] = <<>>
            /\ pc[r] # "Forward"
            /\ pc[r] = "Fail" => result[r].log # "SendError"
            /\ pc[r] = "Respond" =>
                  /\ AllFieldsDone(r)
                  /\ result[r] = Reply(forwarded[r])
                  /\ forwarded[r] =
                        IF trace[r] = <<>> THEN EmptyObject
                        ELSE DocAfter(r, Len(trace[r]))
            /\ (id[r] \in DOMAIN config.webhooks /\ AllFieldsDone(r)) =>
                  \/ pc[r] = "Respond"
                  \/ pc[r] = "ReadField" /\ ENABLED Dispatch(r)

\* with debug set, the route "other", configured with the reply {"ok":true},
\* replied {"uid":42}
C11_Witness ==
    \E r \in Reqs :
        /\ config.debug
        /\ id[r] = "other"
        /\ pc[r] = "Respond"
        /\ result[r].json = [x \in {"uid"} |-> Num(42)]
        /\ ConfiguredReply(r) # result[r].json

(***************************************************************************)
(* C12  Forward outcome.  With debug off, a run whose fields were all      *)
(* written or skipped sends exactly one request, with the route's method   *)
(* and url and the forwarded document as its body, and no other run sends  *)
(* any; when the call fails the run is rejected and returns no reply; when *)
(* it succeeds the reply is the route's configured reply, or {}.           *)
(***************************************************************************)
C12_ForwardOutcome ==
    \A r \in Started :
        (~config.debug /\ id[r] \in DOMAIN config.webhooks) =>
            /\ (AllFieldsDone(r) /\ pc[r] # "ReadField") <=> Len(sent[r]) = 1
            /\ Len(sent[r]) <= 1
            /\ (AllFieldsDone(r) /\ pc[r] = "ReadField") => ENABLED Dispatch(r)
            /\ sent[r] # <<>> =>
                  /\ sent[r][1].method = config.webhooks[id[r]].forward_method
                  /\ sent[r][1].url = config.webhooks[id[r]].forward_url
                  /\ sent[r][1].json = forwarded[r]
                  /\ forwarded[r] =
                        IF trace[r] = <<>> THEN EmptyObject
                        ELSE DocAfter(r, Len(trace[r]))
                  /\ pc[r] \in {"Forward", "Respond", "Fail"}
                  /\ pc[r] = "Forward" => result[r] = NoResult
                  /\ pc[r] = "Fail" => result[r] = Rejection("reject", "SendError")
                  /\ pc[r] = "Respond" => result[r] = Reply(ConfiguredReply(r))
            /\ pc[r] = "Respond" => sent[r] # <<>>

\* a PUT request with body {"uid":42} was sent for the route "other" and
\* the configured reply {"ok":true} returned
C12_Witness ==
    \E r \in Reqs :
        /\ ~config.debug
        /\ id[r] = "other"
        /\ pc[r] = "Respond"
        /\ sent[r] = <<[method |-> "PUT", url |-> "http://upstream.example/x",
                        json |-> [x \in {"uid"} |-> Num(42)]]>>
        /\ result[r].json = [x \in {"ok"} |-> Num(1)]

\* the call of a route with no configured reply failed
C12_WitnessFailed ==
    \E r \in Reqs :
        /\ pc[r] = "Fail"
        /\ result[r].log = "SendError"
        /\ Len(sent[r]) = 1

\* a value that is neither an Object nor an Array
IsScalar(v) == v.t \notin {"Object", "Array"}

\* path q with the leading path p taken off, when IsPrefix(p, q)
Below(p, q) == SubSeq(q, Len(p) + 1, Len(q))

ToA == <<Key("a")>>

(***************************************************************************)
(* C15  Mapping order and prefix overwrite.  The k-th event of a run is    *)
(* about the k-th configured field.  A write to a location that already    *)
(* holds a value, a container built by earlier fields included, leaves     *)
(* exactly the value read there: nothing of the old container is left      *)
(* below it.  After ["a","b"] then ["a"], "a" is the second value; after   *)
(* ["a"] with a scalar then ["a","b"], the second field is rejected and    *)
(* the scalar stays.                                                       *)
(***************************************************************************)
C15_OrderAndPrefixOverwrite ==
    \A r \in Reqs : \A k \in 1..Len(trace[r]) :
        LET to   == FieldsOf(r)[k].to
            pre  == DocBefore(r, k)
            post == DocAfter(r, k)
        IN  /\ ReadFailed(r, k) <=> ~ResolvesIn(body[r], FieldsOf(r)[k].from)
            /\ (trace[r][k].ev = "write" /\ ResolvesIn(pre, to)) =>
                  /\ SubtreeIn(post, to) = ValueRead(r, k)
                  /\ \A q \in AllPaths(Obj(post)) :
                        IsPrefix(to, q) => Below(to, q) \in AllPaths(ValueRead(r, k))
            /\ (k >= 2 /\ trace[r][k - 1].ev = "write" /\ ReadSucceeded(r, k)
                  /\ FieldsOf(r)[k - 1].to = ToAB /\ to = ToA) =>
                  /\ trace[r][k].ev = "write"
                  /\ post["a"] = ValueRead(r, k)
            /\ (k >= 2 /\ trace[r][k - 1].ev = "write" /\ ReadSucceeded(r, k)
                  /\ FieldsOf(r)[k - 1].to = ToA /\ IsScalar(ValueRead(r, k - 1))
                  /\ to = ToAB) =>
                  /\ trace[r][k].ev = "writefail"
                  /\ pc[r] = "Fail"
                  /\ post = pre
                  /\ post["a"] = ValueRead(r, k - 1)

\* {"a":{"b":42}} became {"a":7}
C15_Witness ==
    \E r \in Reqs :
        /\ Len(trace[r]) >= 2
        /\ trace[r][1].ev = "write"
        /\ trace[r][2].ev = "write"
        /\ DocAfter(r, 1) = [x \in {"a"} |-> Obj([y \in {"b"} |-> Num(42)])]
        /\ DocAfter(r, 2) = [x \in {"a"} |-> Num(7)]

\* the scalar 7 at "a" made the field to ["a","b"] fail
C15_WitnessOpposite ==
    \E r \in Reqs :
        /\ Len(trace[r]) = 2
        /\ trace[r][1].ev = "write"
        /\ trace[r][2].ev = "writefail"
        /\ FieldsOf(r)[2].to = ToAB
        /\ forwarded[r] = [x \in {"a"} |-> Num(7)]

(***************************************************************************)
(* Vocabulary of the frame of a write.                                     *)
(***************************************************************************)
\* q is the position of a Null placeholder pushed in front of a segment of
\* to: the container at some prefix of to, at an index below to's index
IsPadding(q, to) ==
    \E n \in 1..(Len(to) - 1) :
        /\ Len(q) = n + 1
        /\ Prefix(q, n) = Prefix(to, n)
        /\ to[n + 1].k = "Index"
        /\ q[n + 1].k = "Index"
        /\ q[n + 1].i < to[n + 1].i

\* what a written field may have done to forwarded, for the locations q of
\* `kept`: they are still there with their value
Keeps(pre, post, kept) ==
    \A q \in kept : Resolves(Obj(post), q) /\ SubtreeIn(post, q) = SubtreeIn(pre, q)

\* the locations of doc other than `to` and the locations on the way to it
NotOnTheWay(doc, to) == {q \in AllPaths(Obj(doc)) : q # to /\ ~IsPrefix(q, to)}

\* the locations of doc that neither lead to `to` nor lie at or below it
ApartFrom(doc, to) == {q \in AllPaths(Obj(doc)) : Apart(q, to)}

(***************************************************************************)
(* C16 as written  Frame of a write.  A written field leaves every key and *)
(* element that was in forwarded, other than its to location and the       *)
(* containers on the way to it, in place with its value.                   *)
(***************************************************************************)
C16_FrameAsWritten ==
    \A r \in Reqs : \A k \in 1..Len(trace[r]) :
        trace[r][k].ev = "write" =>
            Keeps(DocBefore(r, k), DocAfter(r, k),
                  NotOnTheWay(DocBefore(r, k), FieldsOf(r)[k].to))

(***************************************************************************)
(* C16  Frame of a write, amended.  A written field leaves every key and   *)
(* element that was in forwarded and is neither on the way to its to       *)
(* location nor at or below it in place with its value (what was below the *)
(* to location is replaced with it); what is new in forwarded is on the    *)
(* to path, below it, or a Null placeholder in front of one of its Index   *)
(* segments; no array outside the to location shrinks, and an Index(i)     *)
(* segment on an array longer than i leaves its length as it was.          *)
(***************************************************************************)
C16_Frame ==
    \A r \in Reqs : \A k \in 1..Len(trace[r]) :
        LET to   == FieldsOf(r)[k].to
            pre  == DocBefore(r, k)
            post == DocAfter(r, k)
        IN  trace[r][k].ev = "write" =>
                /\ Keeps(pre, post, ApartFrom(pre, to))
                /\ \A q \in AllPaths(Obj(post)) \ AllPaths(Obj(pre)) :
                      \/ IsPrefix(q, to)
                      \/ IsPrefix(to, q)
                      \/ IsPadding(q, to) /\ SubtreeIn(post, q) = Null
                /\ \A q \in AllPaths(Obj(pre)) :
                      (~IsPrefix(to, q) /\ SubtreeIn(pre, q).t = "Array") =>
                          /\ SubtreeIn(post, q).t = "Array"
                          /\ Len(SubtreeIn(post, q).a) >= Len(SubtreeIn(pre, q).a)
                /\ \A n \in 1..(Len(to) - 1) :
                      (/\ to[n + 1].k = "Index"
                       /\ ResolvesIn(pre, Prefix(to, n))
                       /\ SubtreeIn(pre, Prefix(to, n)).t = "Array"
                       /\ Len(SubtreeIn(pre, Prefix(to, n)).a) > to[n + 1].i) =>
                          Len(SubtreeIn(post, Prefix(to, n)).a)
                              = Len(SubtreeIn(pre, Prefix(to, n)).a)

\* {"items":[1]} was extended by a write to ["items",2]: the element 1 is
\* still there, a Null placeholder is new, and then ["items",0] was
\* written on the array of three elements
C16_Witness ==
    \E r \in Reqs :
        /\ Len(trace[r]) = 3
        /\ \A k \in 1..3 : trace[r][k].ev = "write"
        /\ DocAfter(r, 1) = ItemsOf(<<Num(1)>>)
        /\ DocAfter(r, 2) = ItemsOf(<<Num(1), Null, Num(42)>>)
        /\ FieldsOf(r)[3].to = ToItems0
        /\ Len(DocAfter(r, 3)["items"].a) = 3

(***************************************************************************)
(* C17  Existing values are not re-typed.  A field whose read succeeded    *)
(* and whose to path passes through a Null that is already in forwarded (a *)
(* placeholder or a null copied from the body) is rejected with a plain    *)
(* rejection and leaves forwarded as it was; a written field leaves the    *)
(* type of every value that was on the way to its to location as it was.   *)
(* After ["items",2,"k"], a field to ["items",0,"k"] is rejected, and a    *)
(* field to ["items",0] is written.                                        *)
(***************************************************************************)
C17_NoRetyping ==
    \A r \in Reqs : \A k \in 1..Len(trace[r]) :
        LET to   == FieldsOf(r)[k].to
            pre  == DocBefore(r, k)
            post == DocAfter(r, k)
        IN  /\ (/\ ReadSucceeded(r, k)
                /\ \E n \in 1..(Len(to) - 1) :
                      /\ ResolvesIn(pre, Prefix(to, n))
                      /\ SubtreeIn(pre, Prefix(to, n)) = Null) =>
                    /\ trace[r][k].ev = "writefail"
                    /\ post = pre
                    /\ pc[r] = "Fail"
                    /\ result[r] = Rejection("reject", "none")
            /\ trace[r][k].ev = "write" =>
                  \A n \in 1..(Len(to) - 1) :
                      ResolvesIn(pre, Prefix(to, n)) =>
                          SubtreeIn(post, Prefix(to, n)).t = SubtreeIn(pre, Prefix(to, n)).t
            /\ (/\ k >= 2
                /\ trace[r][k - 1].ev = "write"
                /\ FieldsOf(r)[k - 1].to = <<Key("items"), Index(2), Key("k")>>
                /\ pre["items"].a[1] = Null
                /\ ReadSucceeded(r, k)) =>
                    /\ to = <<Key("items"), Index(0), Key("k")>> =>
                          trace[r][k].ev = "writefail"
                    /\ to = ToItems0 =>
                          /\ trace[r][k].ev = "write"
                          /\ post["items"] = Arr([pre["items"].a EXCEPT ![1] = ValueRead(r, k)])

\* after ["items",2,"k"], the field to ["items",0,"k"] met the placeholder
\* and was rejected
C17_Witness ==
    \E r \in Reqs :
        /\ Len(trace[r]) = 2
        /\ trace[r][1].ev = "write"
        /\ FieldsOf(r)[1].to = <<Key("items"), Index(2), Key("k")>>
        /\ FieldsOf(r)[2].to = <<Key("items"), Index(0), Key("k")>>
        /\ trace[r][2].ev = "writefail"
        /\ forwarded[r] = ItemsOf(<<Null, Null, Obj([x \in {"k"} |-> Num(42)])>>)

\* after ["items",2,"k"], the field to ["items",0] was written
C17_WitnessTerminal ==
    \E r \in Reqs :
        /\ Len(trace[r]) = 2
        /\ trace[r][1].ev = "write"
        /\ trace[r][2].ev = "write"
        /\ forwarded[r] = ItemsOf(<<Num(42), Null, Obj([x \in {"k"} |-> Num(42)])>>)

\* the null of the body, copied to ["a"], made the field to ["a","b"] fail
C17_WitnessCopiedNull ==
    \E r \in Reqs :
        /\ Len(trace[r]) = 2
        /\ trace[r][1].ev = "write"
        /\ trace[r][2].ev = "writefail"
        /\ FieldsOf(r)[2].to = ToAB
        /\ forwarded[r] = [x \in {"a"} |-> Null]

(***************************************************************************)
(* C18  An optional field swallows every read failure.  A processed field  *)
(* that is optional and whose read fails, with a missing key, a value of   *)
(* the wrong type, a missing index, an empty from path or a from path that *)
(* starts with an Index, is skipped: forwarded is as before it, the run is *)
(* not rejected there and goes on with the next field.  The read comes     *)
(* first, so this holds also when the to path of the field is empty or     *)
(* starts with an Index.                                                   *)
(***************************************************************************)
C18_OptionalSwallowsAll ==
    \A r \in Reqs :
        /\ \A k \in 1..Len(trace[r]) :
              LET f == FieldsOf(r)[k]
                  e == ReadError(body[r], f.from)
              IN  (f.optional /\ e \in {"MissingKey", "TypeMismatch", "MissingIndex", "NoKind"}) =>
                      /\ trace[r][k].ev = "skip"
                      /\ KindOfLog(trace[r][k].log) = e
                      /\ DocAfter(r, k) = DocBefore(r, k)
                      /\ idx[r] > k
                      /\ k = Len(trace[r]) =>
                            /\ pc[r] \in {"ReadField", "WriteField", "Forward", "Respond", "Fail"}
                            /\ idx[r] = k + 1
                            /\ forwarded[r] = DocBefore(r, k)
                            /\ pc[r] = "Fail" => result[r].log = "SendError"
        /\ (/\ pc[r] = "ReadField"
            /\ idx[r] <= Len(FieldsOf(r))
            /\ FieldsOf(r)[idx[r]].optional
            /\ ReadError(body[r], FieldsOf(r)[idx[r]].from) # "none") =>
                /\ Len(trace[r]) = idx[r] - 1
                /\ ENABLED ReadField(r)

\* an optional field with an empty to path whose read met an Array where
\* its from path needs an Object was skipped, and the next field was written
C18_Witness ==
    \E r \in Reqs :
        /\ Len(trace[r]) = 2
        /\ FieldsOf(r)[1].optional
        /\ FieldsOf(r)[1].to = <<>>
        /\ trace[r][1].ev = "skip"
        /\ trace[r][1].log = "ExpectedObject"
        /\ trace[r][2].ev = "write"
        /\ forwarded[r] = [x \in {"uid"} |-> SubtreeIn(body[r], <<Key("b")>>)]

\* an optional field with an empty from path and a to path starting with an
\* Index was skipped, and the request was sent
C18_WitnessEmptyFrom ==
    \E r \in Reqs :
        /\ Len(trace[r]) = 2
        /\ FieldsOf(r)[1].optional
        /\ FieldsOf(r)[1].from = <<>>
        /\ FieldsOf(r)[1].to = <<Index(0)>>
        /\ trace[r][1].ev = "skip"
        /\ trace[r][2].ev = "write"
        /\ sent[r] # <<>>

\* an optional field whose from path starts with an Index, and one whose
\* read met a missing index, were skipped
C18_WitnessIndexFirst ==
    \E r \in Reqs :
        /\ Len(trace[r]) >= 1
        /\ FieldsOf(r)[1].optional
        /\ FieldsOf(r)[1].from # <<>>
        /\ FieldsOf(r)[1].from[1].k = "Index"
        /\ trace[r][1].ev = "skip"

C18_WitnessMissingIndex ==
    \E r \in Reqs :
        /\ Len(trace[r]) >= 1
        /\ trace[r][1].ev = "skip"
        /\ trace[r][1].log = "MissingIndex"

(***************************************************************************)
(* Vocabulary of the comparison of two runs under SpecPair.                *)
(***************************************************************************)
\* the request started last: its run is under the present configuration
LastStarted == CHOOSE r \in Reqs : pc[r] # "Idle" /\ \A q \in Reqs : pc[q] # "Idle" => q <= r

\* the value of debug the service had during the run of request r: every
\* restart turned it over
DebugOf(r) == IF (LastStarted - r) % 2 = 0 THEN config.debug ELSE ~config.debug

\* the runs of r and r+1 have both ended: dbg is the one with debug set
BothEnded(r) == r + 1 \in Reqs /\ Ended(r) /\ Ended(r + 1)

DebugRun(r) == IF DebugOf(r) THEN r ELSE r + 1

ForwardRun(r) == IF DebugOf(r) THEN r + 1 ELSE r

(***************************************************************************)
(* C13  Debug/forward equivalence.  For the same routes, route id and      *)
(* body, the run with debug set and the run without it process the same    *)
(* fields with the same outcomes and build the same document; the one      *)
(* replies exactly when the other sends a request, and the document it     *)
(* replies is the JSON body of that request; the one fails in the lookup,  *)
(* a read or a write (or panics) exactly when the other does, with the     *)
(* same rejection.  For fields=[{from:["user","id"], to:["uid"]}] and body *)
(* {"user":{"id":42}} both give {"uid":42}.                                *)
(***************************************************************************)
C13_DebugForwardEquivalence ==
    \A r \in Reqs :
        BothEnded(r) =>
            LET d == DebugRun(r)
                f == ForwardRun(r)
            IN  /\ id[d] = id[f] /\ body[d] = body[f] /\ hook[d] = hook[f]
                /\ trace[d] = trace[f]
                /\ forwarded[d] = forwarded[f]
                /\ sent[d] = <<>>
                /\ pc[d] = "Respond" <=> sent[f] # <<>>
                /\ pc[d] = "Respond" =>
                      /\ Len(sent[f]) = 1
                      /\ result[d] = Reply(sent[f][1].json)
                /\ pc[d] = "Fail" <=> FieldOrRouteFailure(f)
                /\ pc[d] = "Fail" => result[d] = result[f]
                /\ pc[d] = "Panic" <=> pc[f] = "Panic"
                /\ (id[d] = "other" /\ body[d] = Body1) =>
                      /\ result[d] = Reply([x \in {"uid"} |-> Num(42)])
                      /\ sent[f][1].json = [x \in {"uid"} |-> Num(42)]

\* the run without debug sent {"a":{"b":42,"c":7}} and the run with debug,
\* started after it, replied that document
C13_Witness ==
    \E r \in Reqs :
        /\ BothEnded(r)
        /\ DebugRun(r) = r + 1
        /\ pc[r + 1] = "Respond"
        /\ result[r + 1].json = [x \in {"a"} |-> Obj([y \in {"b", "c"} |->
                                    IF y = "b" THEN Num(42) ELSE Num(7)])]
        /\ sent[r] # <<>>
        /\ sent[r][1].json = result[r + 1].json

\* the scenario of the design document: {"uid":42} in both, debug first
C13_WitnessScenario ==
    \E r \in Reqs :
        /\ BothEnded(r)
        /\ DebugRun(r) = r
        /\ id[r] = "other"
        /\ result[r] = Reply([x \in {"uid"} |-> Num(42)])
        /\ pc[r + 1] = "Respond"
        /\ result[r + 1] = Reply([x \in {"ok"} |-> Num(1)])

\* both runs were rejected at the same required field
C13_WitnessFailed ==
    \E r \in Reqs :
        /\ BothEnded(r)
        /\ pc[r] = "Fail" /\ pc[r + 1] = "Fail"
        /\ Len(trace[r]) = 2
        /\ trace[r][2].ev = "readfail"

(***************************************************************************)
(* Vocabulary of the concurrent runs.                                      *)
(***************************************************************************)
\* everything the run of request r holds
Local(r) ==
    <<id[r], body[r], pc[r], hook[r], idx[r], fromv[r], forwarded[r], sent[r],
      result[r], trace[r]>>

\* handler run alone on the id and body of request r
AloneOf(r) == Alone(config, id[r], body[r])

\* the run of request r is where handler run alone on its id and body is,
\* or on the way there
AsAlone(r) ==
    /\ Len(trace[r]) <= Len(AloneOf(r).trace)
    /\ \A e \in 1..Len(trace[r]) :
          /\ trace[r][e].ev = AloneOf(r).trace[e].ev
          /\ trace[r][e].log = AloneOf(r).trace[e].log
          /\ trace[r][e].doc = AloneOf(r).trace[e].doc
    /\ forwarded[r] = IF trace[r] = <<>> THEN EmptyObject
                      ELSE trace[r][Len(trace[r])].doc
    /\ sent[r] # <<>> =>
          /\ AloneOf(r).end = "done"
          /\ ~config.debug
          /\ sent[r] = <<Request(config.webhooks[id[r]], AloneOf(r).doc)>>
    /\ Ended(r) =>
          /\ Len(trace[r]) = Len(AloneOf(r).trace)
          /\ forwarded[r] = AloneOf(r).doc
          /\ CASE AloneOf(r).end = "not_found" ->
                    /\ pc[r] = "Fail"
                    /\ result[r] = Rejection("not_found", "none")
               [] AloneOf(r).end = "reject" ->
                    /\ pc[r] = "Fail"
                    /\ result[r] = Rejection("reject", AloneOf(r).log)
               [] AloneOf(r).end = "panic" ->
                    /\ pc[r] = "Panic"
                    /\ result[r] = NoResult
               [] OTHER ->
                    IF config.debug
                    THEN /\ pc[r] = "Respond"
                         /\ result[r] = Reply(AloneOf(r).doc)
                    ELSE /\ sent[r] # <<>>
                         /\ \/ /\ pc[r] = "Respond"
                               /\ result[r] = Reply(ConfiguredReply(r))
                            \/ /\ pc[r] = "Fail"
                               /\ result[r] = Rejection("reject", "SendError")

\* a run that has not ended can take its next step, whatever became of the
\* other runs
CanStep(r) ==
    \/ ENABLED RouteLookup(r)
    \/ ENABLED ReadField(r)
    \/ ENABLED WriteMapping(r)
    \/ ENABLED Dispatch(r)
    \/ ENABLED UpstreamOk(r)
    \/ ENABLED UpstreamErr(r)

\* a step is the step of one run: it leaves config and what the other runs
\* hold as they are
OneRunSteps ==
    /\ config' = config
    /\ \E r \in Reqs : \A q \in Reqs \ {r} : Local(q)' = Local(q)

(***************************************************************************)
(* C14  Independence of concurrent dispatches.  In every interleaving of   *)
(* the runs of the requests, the events, the forwarded document, the       *)
(* request sent and the outcome of each run are those of handler run alone *)
(* on the id and body of that request; a run that has not ended can take   *)
(* its next step whatever the others did, a rejected or panicked run       *)
(* included; no step changes config, and every step changes what one run   *)
(* holds and nothing of the others.                                        *)
(***************************************************************************)
C14_Independence ==
    /\ [](\A r \in Reqs : pc[r] # "Idle" => AsAlone(r) /\ (Ended(r) \/ CanStep(r)))
    /\ [][OneRunSteps]_vars

\* a run panicked, and another run, with steps taken after the panic, sent
\* its own document and replied; the bodies of the two differ
C14_Witness ==
    \E r \in Reqs : \E q \in Reqs \ {r} :
        /\ pc[r] = "Panic"
        /\ pc[q] = "Respond"
        /\ body[r] # body[q]
        /\ sent[q] = <<Request(OtherHook, [x \in {"uid"} |-> Num(43)])>>
        /\ forwarded[r] # forwarded[q]

\* two runs of the same route, both in the middle of the loop, hold
\* different documents
C14_WitnessSameRoute ==
    \E r \in Reqs : \E q \in Reqs \ {r} :
        /\ id[r] = "test" /\ id[q] = "test"
        /\ pc[r] = "WriteField" /\ pc[q] = "ReadField"
        /\ Len(trace[r]) = 1 /\ Len(trace[q]) = 1
        /\ trace[r][1].ev = "write" /\ trace[q][1].ev = "write"
        /\ forwarded[r] # forwarded[q]

(***************************************************************************)
(* C19  Reply non-interference.  Without debug, two runs of the same route *)
(* that both replied gave the same reply, the reply of the route or the    *)
(* empty object, whatever their bodies and the documents they sent.        *)
(***************************************************************************)
C19_ReplyNonInterference ==
    \A r \in Reqs : \A q \in Reqs :
        (/\ ~config.debug
         /\ id[r] = id[q]
         /\ pc[r] = "Respond"
         /\ pc[q] = "Respond") =>
            /\ result[r] = result[q]
            /\ result[r] = Reply(ConfiguredReply(r))
            /\ result[r].json = IF config.webhooks[id[r]].reply.some
                                THEN config.webhooks[id[r]].reply.val
                                ELSE EmptyObject

\* two runs of the route with a reply, with different bodies, sent
\* different documents and replied the same
C19_Witness ==
    \E r \in Reqs : \E q \in Reqs \ {r} :
        /\ ~config.debug
        /\ id[r] = "other" /\ id[q] = "other"
        /\ pc[r] = "Respond" /\ pc[q] = "Respond"
        /\ body[r] # body[q]
        /\ sent[r][1].json # sent[q][1].json
        /\ result[r] = Reply([x \in {"ok"} |-> Num(1)])
        /\ result[q] = result[r]

\* two runs of a route without a reply replied the empty object
C19_WitnessNoReply ==
    \E r \in Reqs : \E q \in Reqs \ {r} :
        /\ ~config.debug
        /\ id[r] = "test" /\ id[q] = "test"
        /\ pc[r] = "Respond" /\ pc[q] = "Respond"
        /\ sent[r][1].json # sent[q][1].json
        /\ result[r] = Reply(EmptyObject)
        /\ result[q] = Reply(EmptyObject)

====
